---- MODULE Spec2Model ----
(***************************************************************************)
(* Asset stores of dagster/core/storage/asset_store.py.                    *)
(*                                                                         *)
(* One behaviour is the life of one store instance: Init constructs one of *)
(* the four store classes, and every step is one call the engine makes on  *)
(* it: handle_output (which calls set_asset), load_input (which calls      *)
(* get_asset) or, on the versioned store, has_asset.  SpecEngine adds the  *)
(* engine that initialises the resource again and builds contexts from     *)
(* arguments of any type; SpecConc runs a set_asset of the versioned store *)
(* statement by statement next to a second caller.                         *)
(*                                                                         *)
(* A Python str is a sequence of one-character strings, so that            *)
(* os.path.join, os.path.dirname and the kernel's path resolution are      *)
(* computed character by character.  The strings of the model contain no   *)
(* ".." component and are never empty.                                     *)
(***************************************************************************)
EXTENDS Integers, Sequences, FiniteSets, TLC

VARIABLES
    asset_store,    \* the class of the store instance under execution
    values,         \* InMemoryAssetStore.values: key tuple -> object
    fs,             \* the filesystem: [dirs: set of paths, files: path -> bytes]
    last,           \* the last store call: operation, context, object, outcome
                    \* and, for set_asset, what get_asset gave before the call
    pending         \* the set_asset call another caller has in progress: the
                    \* statement it is about to execute, its context, object
                    \* and file path

vars == <<asset_store, values, fs, last, pending>>

----------------------------------------------------------------------------
(* Bounds and input domains *)

\* payloads are the picklable objects 1..MaxVal and one unpicklable object
MaxVal == 2

\* Python's None; no str equals it (a str holds single characters only)
None == <<"None">>

\* a value that is neither a str nor None (an int), as a field and as the
\* key of a dict
NotAStr == <<"int">>

NotAStrKey == "int"

\* Python's None where a dict is expected (a dict is a set of pairs)
NoneDict == {<<"None", None>>}

\* an object that is no SolidDefinition
NotASolidDef == "not_a_solid"

Picklables == [picklable : {TRUE}, n : 1..MaxVal]

Unpicklable == [picklable |-> FALSE, n |-> 1]

Objects == Picklables \cup {Unpicklable}

\* the value of a call that returns nothing
NoneValue == [none |-> TRUE]

InMemory == "InMemoryAssetStore"

RunScoped == "PickledObjectFilesystemAssetStore"

CustomPath == "CustomPathPickledObjectFilesystemAssetStore"

Versioned == "VersionedPickledObjectFilesystemAssetStore"

StoreClasses == {InMemory, RunScoped, CustomPath, Versioned}

FilesystemClasses == {RunScoped, CustomPath, Versioned}

SolidDefs == {"return_one", "add_one"}

\* the solid definition of the step that produces the outputs
ProducerSolid == "return_one"

PipelineName == <<"p", "i", "p", "e">>

\* the process's working directory, against which relative paths resolve
Cwd == <<"/", "w">>

\* the mappings handed in as OutputDefinition.asset_metadata
NoMetadata == {}

MetadataWithPath(p) == {<<"path", p>>}

\* The engine-side field values each store class is driven with.  Fields a
\* class never reads are held at one value, except the run id of the
\* versioned store.  Some values hold the path separator or are absolute
\* paths: AssetStoreContext accepts every str.
FieldValues(cls) ==
    CASE cls = InMemory ->
           {f \in [run_id   : {None, <<"r">>},
                   step_key : {<<"a">>, <<"/", "a">>},
                   name     : {<<"o">>},
                   version  : {None},
                   metadata : {NoMetadata}] :
               f.run_id = None => f.step_key = <<"a">>}
      [] cls = RunScoped ->
           [run_id   : {None, <<"r">>, <<"s">>},
            step_key : {<<"a">>, <<"/", "a">>},
            name     : {<<"o">>},
            version  : {None},
            metadata : {NoMetadata}]
      [] cls = CustomPath ->
           [run_id   : {<<"r">>},
            step_key : {<<"a">>, <<"b">>},
            name     : {<<"o">>},
            version  : {None},
            metadata : {NoMetadata, MetadataWithPath(<<"p">>),
                        MetadataWithPath(<<"/", "p">>)}]
      [] cls = Versioned ->
           {f \in [run_id   : {None, <<"r">>},
                   step_key : {<<"a">>},
                   name     : {<<"o">>, <<"o", "/", "v">>},
                   version  : {None, <<"v">>, <<"w">>, <<"v", "/", "w">>},
                   metadata : {NoMetadata}] :
               f.name = <<"o", "/", "v">> => f.version = <<"w">>}

\* the engine's output contexts (step_key, name, metadata, pipeline_name,
\* solid_def, run_id, version)
OutputContextsOf ==
    [cls \in StoreClasses |->
        {[step_key |-> f.step_key, name |-> f.name, metadata |-> f.metadata,
          pipeline_name |-> PipelineName, solid_def |-> ProducerSolid,
          run_id |-> f.run_id, version |-> f.version] : f \in FieldValues(cls)}]

OutputContexts(cls) == OutputContextsOf[cls]

\* the engine's load contexts: an upstream output and the consuming solid
LoadContextsOf ==
    [cls \in StoreClasses |->
        [upstream_output : OutputContexts(cls), solid_def : SolidDefs]]

LoadContexts(cls) == LoadContextsOf[cls]

\* the output contexts of an engine that does not keep to the types: one
\* output of the class with one argument replaced by None (where a str is
\* required, or for the metadata, where None is allowed), by an int, by a
\* dict with an int key or by an object that is no SolidDefinition
OddOutputContextsOf ==
    [cls \in StoreClasses |->
        LET base == {oc \in OutputContexts(cls) :
                        /\ oc.run_id = <<"r">>
                        /\ oc.step_key = <<"a">>
                        /\ oc.name = <<"o">>
                        /\ oc.version \in {None, <<"v">>}
                        /\ oc.metadata \in {NoMetadata, MetadataWithPath(<<"p">>)}}
        IN  UNION {
              {[oc EXCEPT !.step_key = x] : x \in {None, NotAStr}}
              \cup {[oc EXCEPT !.name = x] : x \in {None, NotAStr}}
              \cup {[oc EXCEPT !.pipeline_name = x] : x \in {None, NotAStr}}
              \cup {[oc EXCEPT !.run_id = NotAStr], [oc EXCEPT !.version = NotAStr]}
              \cup {[oc EXCEPT !.metadata = x] :
                        x \in {NoneDict, {<<NotAStrKey, <<"p">>>>}}}
              \cup {[oc EXCEPT !.solid_def = NotASolidDef]} : oc \in base}]

OddOutputContexts(cls) == OddOutputContextsOf[cls]

\* its load contexts: an odd upstream output, or an odd consuming solid
OddLoadContextsOf ==
    [cls \in StoreClasses |->
        [upstream_output : OddOutputContexts(cls), solid_def : {ProducerSolid}]
        \cup {lc \in [upstream_output : OutputContexts(cls),
                      solid_def : {NotASolidDef}] :
                 lc.upstream_output.step_key = <<"a">>
                     /\ lc.upstream_output.run_id = <<"r">>}]

OddLoadContexts(cls) == OddLoadContextsOf[cls]

----------------------------------------------------------------------------
(* AssetStoreContext *)

AssetStoreContext(step_key, output_name, asset_metadata, pipeline_name, solid_def, source_run_id, version) ==
    [step_key |-> step_key, output_name |-> output_name,
     asset_metadata |-> asset_metadata, pipeline_name |-> pipeline_name,
     solid_def |-> solid_def, source_run_id |-> source_run_id,
     version |-> version]

get_run_scoped_output_identifier(context) ==
    <<context.source_run_id, context.step_key, context.output_name>>

from_output_context(output_context) ==
    AssetStoreContext(output_context.step_key, output_context.name,
                      output_context.metadata, output_context.pipeline_name,
                      output_context.solid_def, output_context.run_id,
                      output_context.version)

\* from_load_context with the step key and the output name of the upstream
\* output in each other's place
from_load_context_swapped(load_context) ==
    LET output_context == load_context.upstream_output
    IN  AssetStoreContext(output_context.name, output_context.step_key,
                          output_context.metadata, output_context.pipeline_name,
                          load_context.solid_def, output_context.run_id,
                          output_context.version)

from_load_context(load_context) ==
    LET output_context == load_context.upstream_output
    IN  AssetStoreContext(output_context.step_key, output_context.name,
                          output_context.metadata, output_context.pipeline_name,
                          load_context.solid_def, output_context.run_id,
                          output_context.version)

\* every context a call on a store of class cls can carry
ContextsOf ==
    [cls \in StoreClasses |->
        {from_output_context(oc) : oc \in OutputContexts(cls)}
            \cup {from_load_context(lc) : lc \in LoadContexts(cls)}]

Contexts(cls) == ContextsOf[cls]

----------------------------------------------------------------------------
(* Outcomes of a call *)

Returned(v) == [raised |-> "", value |-> v]

Raised(e) == [raised |-> e]

IsReturned(ret) == ret.raised = ""

\* dagster.check.str_param: the value must be a str
str_param(obj) ==
    IF obj \in {None, NotAStr} THEN Raised("CheckError") ELSE Returned(obj)

\* dagster.check.opt_str_param: the value must be a str or None
opt_str_param(obj) ==
    IF obj = None THEN Returned(None) ELSE str_param(obj)

\* dagster.check.opt_dict_param(obj, key_type=str): a dict whose keys are
\* str; None gives the empty dict
opt_dict_param(obj) ==
    IF obj = NoneDict THEN Returned({})
    ELSE IF \E kv \in obj : kv[1] = NotAStrKey THEN Raised("CheckError")
    ELSE Returned(obj)

\* dagster.check.inst_param(obj, SolidDefinition)
inst_param(obj) ==
    IF obj \in SolidDefs THEN Returned(obj) ELSE Raised("CheckError")

\* AssetStoreContext.__new__ that passes version on without checking it
AssetStoreContext_new_unchecked_version(c) ==
    IF \/ ~IsReturned(str_param(c.step_key))
       \/ ~IsReturned(str_param(c.output_name))
       \/ ~IsReturned(opt_dict_param(c.asset_metadata))
       \/ ~IsReturned(str_param(c.pipeline_name))
       \/ ~IsReturned(inst_param(c.solid_def))
       \/ ~IsReturned(opt_str_param(c.source_run_id))
    THEN Raised("CheckError")
    ELSE Returned([c EXCEPT
                      !.asset_metadata = opt_dict_param(c.asset_metadata).value])

\* the checks of AssetStoreContext.__new__ on the arguments c: the check
\* error, or the context made of the checked arguments
AssetStoreContext_new(c) ==
    IF \/ ~IsReturned(str_param(c.step_key))
       \/ ~IsReturned(str_param(c.output_name))
       \/ ~IsReturned(opt_dict_param(c.asset_metadata))
       \/ ~IsReturned(str_param(c.pipeline_name))
       \/ ~IsReturned(inst_param(c.solid_def))
       \/ ~IsReturned(opt_str_param(c.source_run_id))
       \/ ~IsReturned(opt_str_param(c.version))
    THEN Raised("CheckError")
    ELSE Returned([c EXCEPT
                      !.asset_metadata = opt_dict_param(c.asset_metadata).value])

\* dict.get(key): the value under key, None when the key is absent
dict_get(d, key) ==
    IF \E kv \in d : kv[1] = key
    THEN (CHOOSE kv \in d : kv[1] = key)[2]
    ELSE None

----------------------------------------------------------------------------
(* os.path and the filesystem *)

StartsWithSep(s) == Len(s) > 0 /\ s[1] = "/"

EndsWithSep(s) == Len(s) > 0 /\ s[Len(s)] = "/"

\* one round of the loop of posixpath.join
JoinOne(path, b) ==
    IF StartsWithSep(b) THEN b
    ELSE IF path = <<>> \/ EndsWithSep(path) THEN path \o b
    ELSE path \o <<"/">> \o b

RECURSIVE JoinAll(_, _)
JoinAll(path, p) ==
    IF p = <<>> THEN path ELSE JoinAll(JoinOne(path, Head(p)), Tail(p))

\* os.path.join(a, *p): TypeError when a component is not a str
os_path_join(a, p) ==
    IF a = None \/ \E i \in 1..Len(p) : p[i] = None
    THEN Raised("TypeError")
    ELSE Returned(JoinAll(a, p))

\* index of the last separator of s, 0 when there is none
LastSep(s) ==
    IF \E i \in 1..Len(s) : s[i] = "/"
    THEN CHOOSE i \in 1..Len(s) :
             s[i] = "/" /\ \A j \in (i + 1)..Len(s) : s[j] # "/"
    ELSE 0

RECURSIVE RStripSep(_)
RStripSep(s) ==
    IF EndsWithSep(s) THEN RStripSep(SubSeq(s, 1, Len(s) - 1)) ELSE s

\* os.path.dirname(p)
os_path_dirname(p) ==
    LET head == SubSeq(p, 1, LastSep(p))
    IN  IF head # <<>> /\ \E i \in 1..Len(head) : head[i] # "/"
        THEN RStripSep(head)
        ELSE head

\* the components of a path string: the pieces between separators, without
\* the empty pieces and the "." pieces
RECURSIVE Components(_, _)
Components(s, piece) ==
    LET done == IF piece = <<>> \/ piece = <<".">> THEN <<>> ELSE <<piece>>
    IN  IF s = <<>> THEN done
        ELSE IF Head(s) = "/" THEN done \o Components(Tail(s), <<>>)
        ELSE Components(Tail(s), Append(piece, Head(s)))

\* the node a path string names: relative paths start at the working directory
Resolve(p) == Components(IF StartsWithSep(p) THEN p ELSE JoinOne(Cwd, p), <<>>)

RECURSIVE Unsplit(_)
Unsplit(c) ==
    IF c = <<>> THEN <<>> ELSE <<"/">> \o Head(c) \o Unsplit(Tail(c))

\* os.path.abspath(p)
os_path_abspath(p) ==
    IF Resolve(p) = <<>> THEN <<"/">> ELSE Unsplit(Resolve(p))

ProperPrefixes(c) == {SubSeq(c, 1, i) : i \in 0..(Len(c) - 1)}

IsFile(f, c) == c \in DOMAIN f.files

IsDir(f, c) == c \in f.dirs

\* os.path.exists(p)
os_path_exists(f, p) == IsFile(f, Resolve(p)) \/ IsDir(f, Resolve(p))

\* os.path.isdir(p)
os_path_isdir(f, p) == IsDir(f, Resolve(p))

\* the error of walking to the node c, "" when its parent is a directory
WalkError(f, c) ==
    IF \E q \in ProperPrefixes(c) : IsFile(f, q) THEN "NotADirectoryError"
    ELSE IF \E q \in ProperPrefixes(c) : ~IsDir(f, q) THEN "FileNotFoundError"
    ELSE ""

\* dagster.utils.mkdir_p(path): os.makedirs, accepting a directory that
\* already exists
mkdir_p(f, path) ==
    LET c == Resolve(path)
    IN  IF path = <<>> THEN [fs |-> f, raised |-> "FileNotFoundError"]
        ELSE IF \E q \in ProperPrefixes(c) : IsFile(f, q)
        THEN [fs |-> f, raised |-> "NotADirectoryError"]
        ELSE IF IsFile(f, c) THEN [fs |-> f, raised |-> "FileExistsError"]
        ELSE [fs |-> [f EXCEPT !.dirs = f.dirs \cup ProperPrefixes(c) \cup {c}],
              raised |-> ""]

\* pickle.dumps(obj, PICKLE_PROTOCOL)
pickle_dumps(obj) == <<"PROTO", obj.n, "STOP">>

\* pickle.load(read_obj) on the bytes of a file: the first pickle of the
\* stream, whatever follows its STOP
pickle_load(bytes) ==
    IF bytes = <<>> THEN Raised("EOFError")
    ELSE IF Len(bytes) >= 3 /\ bytes[1] = "PROTO" /\ bytes[3] = "STOP"
    THEN Returned([picklable |-> TRUE, n |-> bytes[2]])
    ELSE Raised("UnpicklingError")

\* the files of f with the file at node c holding bytes
WithFile(f, c, bytes) ==
    [f EXCEPT !.files = [q \in DOMAIN f.files \cup {c} |->
                            IF q = c THEN bytes ELSE f.files[q]]]

\* dump_to_file with the file opened in append mode ("ab"): the pickle lands
\* after the bytes already there
dump_to_file_append(f, filepath, obj) ==
    LET made == mkdir_p(f, os_path_dirname(filepath))
        c    == Resolve(filepath)
        old  == IF IsFile(made.fs, c) THEN made.fs.files[c] ELSE <<>>
    IN  IF made.raised # "" THEN [fs |-> f, ret |-> Raised(made.raised)]
        ELSE IF IsDir(made.fs, c)
        THEN [fs |-> made.fs, ret |-> Raised("IsADirectoryError")]
        ELSE IF ~obj.picklable
        THEN [fs |-> WithFile(made.fs, c, old), ret |-> Raised("PicklingError")]
        ELSE [fs |-> WithFile(made.fs, c, old \o pickle_dumps(obj)),
              ret |-> Returned(NoneValue)]

\* mkdir_p(os.path.dirname(filepath)), then
\* with open(filepath, "wb") as write_obj: pickle.dump(obj, write_obj, ...)
\* open creates or truncates the file before pickle.dump runs
dump_to_file(f, filepath, obj) ==
    LET made == mkdir_p(f, os_path_dirname(filepath))
        c    == Resolve(filepath)
    IN  IF made.raised # "" THEN [fs |-> f, ret |-> Raised(made.raised)]
        ELSE IF IsDir(made.fs, c)
        THEN [fs |-> made.fs, ret |-> Raised("IsADirectoryError")]
        ELSE IF ~obj.picklable
        THEN [fs |-> WithFile(made.fs, c, <<>>), ret |-> Raised("PicklingError")]
        ELSE [fs |-> WithFile(made.fs, c, pickle_dumps(obj)),
              ret |-> Returned(NoneValue)]

\* with open(filepath, "rb") as read_obj: return pickle.load(read_obj)
load_from_file(f, filepath) ==
    LET c == Resolve(filepath)
    IN  IF WalkError(f, c) # "" THEN Raised(WalkError(f, c))
        ELSE IF IsDir(f, c) THEN Raised("IsADirectoryError")
        ELSE IF ~IsFile(f, c) THEN Raised("FileNotFoundError")
        ELSE pickle_load(f.files[c])

----------------------------------------------------------------------------
(* InMemoryAssetStore *)

\* self.values[keys] = obj
DictSet(d, key, obj) ==
    [k \in DOMAIN d \cup {key} |-> IF k = key THEN obj ELSE d[k]]

\* set_asset keyed by step and output only, while get_asset keeps the run id
InMemoryAssetStore_set_asset_unscoped(vals, context, obj) ==
    LET keys == <<context.step_key, context.output_name>>
    IN  [values |-> DictSet(vals, keys, obj), ret |-> Returned(NoneValue)]

InMemoryAssetStore_set_asset(vals, context, obj) ==
    LET keys == get_run_scoped_output_identifier(context)
    IN  [values |-> DictSet(vals, keys, obj), ret |-> Returned(NoneValue)]

InMemoryAssetStore_get_asset(vals, context) ==
    LET keys == get_run_scoped_output_identifier(context)
    IN  IF keys \in DOMAIN vals THEN Returned(vals[keys])
        ELSE Raised("KeyError")

----------------------------------------------------------------------------
(* PickledObjectFilesystemAssetStore *)

\* the default of the base_dir field of the three filesystem resources
base_dir == <<".">>

\* str(None), the text a None key takes when it is formatted
StrNone == <<"N", "o", "n", "e">>

\* _get_path that formats every key with str() before joining
PickledObjectFilesystemAssetStore_get_path_str(context) ==
    LET keys == get_run_scoped_output_identifier(context)
    IN  os_path_join(base_dir,
                     [i \in 1..Len(keys) |->
                         IF keys[i] = None THEN StrNone ELSE keys[i]])

PickledObjectFilesystemAssetStore_get_path(context) ==
    LET keys == get_run_scoped_output_identifier(context)
    IN  os_path_join(base_dir, keys)

PickledObjectFilesystemAssetStore_set_asset(f, context, obj) ==
    LET filepath == PickledObjectFilesystemAssetStore_get_path(context)
    IN  IF ~IsReturned(filepath) THEN [fs |-> f, ret |-> filepath]
        ELSE dump_to_file(f, filepath.value, obj)

PickledObjectFilesystemAssetStore_get_asset(f, context) ==
    LET filepath == PickledObjectFilesystemAssetStore_get_path(context)
    IN  IF ~IsReturned(filepath) THEN filepath
        ELSE load_from_file(f, filepath.value)

----------------------------------------------------------------------------
(* CustomPathPickledObjectFilesystemAssetStore *)

CustomPathPickledObjectFilesystemAssetStore_get_path(path) ==
    os_path_join(base_dir, <<path>>)

\* AssetMaterialization(asset_key=AssetKey([...]),
\*                      metadata_entries=[EventMetadataEntry.fspath(...)])
AssetMaterialization(asset_key, fspath) ==
    [asset_key |-> asset_key, fspath |-> fspath]

\* set_asset reporting filepath as it is, without os.path.abspath
CustomPathPickledObjectFilesystemAssetStore_set_asset_relative(f, context, obj) ==
    LET asset_metadata == context.asset_metadata
        path     == str_param(dict_get(asset_metadata, "path"))
        filepath == CustomPathPickledObjectFilesystemAssetStore_get_path(path.value)
        dumped   == dump_to_file(f, filepath.value, obj)
    IN  IF ~IsReturned(path) THEN [fs |-> f, ret |-> path]
        ELSE IF ~IsReturned(dumped.ret) THEN dumped
        ELSE [fs  |-> dumped.fs,
              ret |-> Returned(AssetMaterialization(
                          <<context.pipeline_name, context.step_key,
                            context.output_name>>,
                          filepath.value))]

CustomPathPickledObjectFilesystemAssetStore_set_asset(f, context, obj) ==
    LET asset_metadata == context.asset_metadata
        path     == str_param(dict_get(asset_metadata, "path"))
        filepath == CustomPathPickledObjectFilesystemAssetStore_get_path(path.value)
        dumped   == dump_to_file(f, filepath.value, obj)
    IN  IF ~IsReturned(path) THEN [fs |-> f, ret |-> path]
        ELSE IF ~IsReturned(dumped.ret) THEN dumped
        ELSE [fs  |-> dumped.fs,
              ret |-> Returned(AssetMaterialization(
                          <<context.pipeline_name, context.step_key,
                            context.output_name>>,
                          os_path_abspath(filepath.value)))]

CustomPathPickledObjectFilesystemAssetStore_get_asset(f, context) ==
    LET asset_metadata == context.asset_metadata
        path     == str_param(dict_get(asset_metadata, "path"))
        filepath == CustomPathPickledObjectFilesystemAssetStore_get_path(path.value)
    IN  IF ~IsReturned(path) THEN path
        ELSE load_from_file(f, filepath.value)

----------------------------------------------------------------------------
(* VersionedPickledObjectFilesystemAssetStore *)

\* _get_path without the check of context.version
VersionedPickledObjectFilesystemAssetStore_get_path_unchecked(context) ==
    LET step_key    == str_param(context.step_key)
        output_name == str_param(context.output_name)
    IN  IF ~IsReturned(step_key) THEN step_key
        ELSE IF ~IsReturned(output_name) THEN output_name
        ELSE os_path_join(base_dir,
                          <<step_key.value, output_name.value, context.version>>)

VersionedPickledObjectFilesystemAssetStore_get_path(context) ==
    LET step_key    == str_param(context.step_key)
        output_name == str_param(context.output_name)
        version     == str_param(context.version)
    IN  IF ~IsReturned(step_key) THEN step_key
        ELSE IF ~IsReturned(output_name) THEN output_name
        ELSE IF ~IsReturned(version) THEN version
        ELSE os_path_join(base_dir,
                          <<step_key.value, output_name.value, version.value>>)

VersionedPickledObjectFilesystemAssetStore_set_asset(f, context, obj) ==
    LET filepath == VersionedPickledObjectFilesystemAssetStore_get_path(context)
    IN  IF ~IsReturned(filepath) THEN [fs |-> f, ret |-> filepath]
        ELSE dump_to_file(f, filepath.value, obj)

\* get_asset that returns None for a file that is not there, instead of
\* letting open raise
VersionedPickledObjectFilesystemAssetStore_get_asset_default(f, context) ==
    LET filepath == VersionedPickledObjectFilesystemAssetStore_get_path(context)
    IN  IF ~IsReturned(filepath) THEN filepath
        ELSE IF load_from_file(f, filepath.value) = Raised("FileNotFoundError")
        THEN Returned(NoneValue)
        ELSE load_from_file(f, filepath.value)

VersionedPickledObjectFilesystemAssetStore_get_asset(f, context) ==
    LET filepath == VersionedPickledObjectFilesystemAssetStore_get_path(context)
    IN  IF ~IsReturned(filepath) THEN filepath
        ELSE load_from_file(f, filepath.value)

\* has_asset without the "not": os.path.exists(...) and os.path.isdir(...)
VersionedPickledObjectFilesystemAssetStore_has_asset_isdir(f, context) ==
    LET filepath == VersionedPickledObjectFilesystemAssetStore_get_path(context)
    IN  IF ~IsReturned(filepath) THEN filepath
        ELSE Returned([bool |-> os_path_exists(f, filepath.value)
                                    /\ os_path_isdir(f, filepath.value)])

VersionedPickledObjectFilesystemAssetStore_has_asset(f, context) ==
    LET filepath == VersionedPickledObjectFilesystemAssetStore_get_path(context)
    IN  IF ~IsReturned(filepath) THEN filepath
        ELSE Returned([bool |-> os_path_exists(f, filepath.value)
                                    /\ ~os_path_isdir(f, filepath.value)])

----------------------------------------------------------------------------
(* The store interface: the method of the instance's class *)

\* store.set_asset(context, obj): the new store state and the outcome
set_asset(cls, vals, f, context, obj) ==
    LET mem == InMemoryAssetStore_set_asset(vals, context, obj)
        onfs == CASE cls = RunScoped ->
                       PickledObjectFilesystemAssetStore_set_asset(f, context, obj)
                  [] cls = CustomPath ->
                       CustomPathPickledObjectFilesystemAssetStore_set_asset(
                           f, context, obj)
                  [] cls = Versioned ->
                       VersionedPickledObjectFilesystemAssetStore_set_asset(
                           f, context, obj)
    IN  IF cls = InMemory
        THEN [values |-> mem.values, fs |-> f, ret |-> mem.ret]
        ELSE [values |-> vals, fs |-> onfs.fs, ret |-> onfs.ret]

\* store.get_asset(context): the outcome
get_asset(cls, vals, f, context) ==
    CASE cls = InMemory -> InMemoryAssetStore_get_asset(vals, context)
      [] cls = RunScoped -> PickledObjectFilesystemAssetStore_get_asset(f, context)
      [] cls = CustomPath ->
           CustomPathPickledObjectFilesystemAssetStore_get_asset(f, context)
      [] cls = Versioned ->
           VersionedPickledObjectFilesystemAssetStore_get_asset(f, context)

----------------------------------------------------------------------------
(* State machine *)

NoCall == [op |-> "none"]

\* no set_asset call is in progress
Idle == [pc |-> "idle"]

EmptyDict == [k \in {} |-> NoneValue]

\* the working directory exists; nothing is stored
EmptyFs == [dirs |-> {<<>>} \cup ProperPrefixes(Resolve(Cwd)) \cup {Resolve(Cwd)},
            files |-> [c \in {} |-> <<>>]]

Init ==
    /\ asset_store \in StoreClasses
    /\ values = EmptyDict
    /\ fs = EmptyFs
    /\ last = NoCall
    /\ pending = Idle

\* the call store.set_asset(context, obj)
SetAsset(context, obj) ==
    LET r == set_asset(asset_store, values, fs, context, obj)
    IN  /\ values' = r.values
        /\ fs' = r.fs
        /\ last' = [op |-> "set_asset", context |-> context, obj |-> obj,
                    ret |-> r.ret,
                    before |-> get_asset(asset_store, values, fs, context)]
        /\ UNCHANGED <<asset_store, pending>>

\* get_asset that makes the directory of the file before it opens it, as
\* set_asset does
GetAsset_mkdir_p(context) ==
    LET filepath == CASE asset_store = RunScoped ->
                           PickledObjectFilesystemAssetStore_get_path(context)
                      [] asset_store = Versioned ->
                           VersionedPickledObjectFilesystemAssetStore_get_path(
                               context)
                      [] OTHER -> Raised("no path")
        made     == mkdir_p(fs, os_path_dirname(filepath.value))
    IN  /\ fs' = IF IsReturned(filepath) /\ made.raised = "" THEN made.fs ELSE fs
        /\ last' = [op |-> "get_asset", context |-> context,
                    ret |-> get_asset(asset_store, values, fs, context)]
        /\ UNCHANGED <<asset_store, values, pending>>

\* the call store.get_asset(context)
GetAsset(context) ==
    /\ last' = [op |-> "get_asset", context |-> context,
                ret |-> get_asset(asset_store, values, fs, context)]
    /\ UNCHANGED <<asset_store, values, fs, pending>>

\* the call store.has_asset(context), a method of the versioned store only
HasAsset(context) ==
    /\ asset_store = Versioned
    /\ last' = [op |-> "has_asset", context |-> context,
                ret |-> VersionedPickledObjectFilesystemAssetStore_has_asset(
                            fs, context)]
    /\ UNCHANGED <<asset_store, values, fs, pending>>

\* the construction of the context raised: no call reaches the store
NoContext(arguments, ret) ==
    /\ last' = [op |-> "AssetStoreContext", context |-> arguments, ret |-> ret]
    /\ UNCHANGED <<asset_store, values, fs, pending>>

\* AssetStore.handle_output(context, obj), on the context the engine makes
\* of its output context
handle_output(output_context, obj) ==
    LET context == AssetStoreContext_new(from_output_context(output_context))
    IN  IF IsReturned(context)
        THEN SetAsset(context.value, obj)
        ELSE NoContext(from_output_context(output_context), context)

\* AssetStore.load_input(context), on the context the engine makes of its
\* load context
load_input(load_context) ==
    LET context == AssetStoreContext_new(from_load_context(load_context))
    IN  IF IsReturned(context)
        THEN GetAsset(context.value)
        ELSE NoContext(from_load_context(load_context), context)

Next ==
    \/ \E oc \in OutputContexts(asset_store), obj \in Objects :
           handle_output(oc, obj)
    \/ \E lc \in LoadContexts(asset_store) : load_input(lc)
    \/ \E oc \in OutputContexts(asset_store) : HasAsset(from_output_context(oc))

Spec == Init /\ [][Next]_vars

----------------------------------------------------------------------------
(* The engine of one process: it initialises the store resource any number *)
(* of times, and its contexts may carry arguments of any type.             *)

\* the resource function of the store class runs again and the engine goes
\* on with the instance it returns: InMemoryAssetStore() has a dict of its
\* own, empty; a filesystem store has the base_dir of the one before
ResourceInit ==
    /\ values' = EmptyDict
    /\ last' = [op |-> "resource_init"]
    /\ UNCHANGED <<asset_store, fs, pending>>

NextEngine ==
    \/ Next
    \/ ResourceInit
    \/ \E oc \in OddOutputContexts(asset_store), obj \in Objects :
           handle_output(oc, obj)
    \/ \E lc \in OddLoadContexts(asset_store) : load_input(lc)

SpecEngine == Init /\ [][NextEngine]_vars

----------------------------------------------------------------------------
(* Two callers on one versioned store.                                     *)
(*                                                                         *)
(* One caller runs set_asset statement by statement; between any two of    *)
(* its statements another caller completes get_asset or has_asset calls,   *)
(* and another party may delete a stored file.  get_asset and has_asset    *)
(* are taken as one step each: open(filepath, "rb") and the pickle.load    *)
(* on the open file see the same bytes unless the writer moves between     *)
(* them, and what they see then is one of the states a whole get_asset     *)
(* sees here.                                                              *)

\* the contexts of the two callers: every (step_key, output_name, version)
\* of the versioned store, under one run and one solid
ConcContexts ==
    {c \in Contexts(Versioned) :
        c.source_run_id = None /\ c.solid_def = ProducerSolid}

InitConc ==
    /\ asset_store = Versioned
    /\ values = EmptyDict
    /\ fs = EmptyFs
    /\ last = NoCall
    /\ pending = Idle

\* the set_asset call in progress ends: it returns or raises ret
Completes(ret) ==
    /\ last' = [op |-> "set_asset", context |-> pending.context,
                obj |-> pending.obj, ret |-> ret]
    /\ pending' = Idle

\* set_asset enters: filepath = self._get_path(context)
set_asset_get_path(context, obj) ==
    LET filepath == VersionedPickledObjectFilesystemAssetStore_get_path(context)
    IN  /\ pending = Idle
        /\ IF IsReturned(filepath)
           THEN /\ pending' = [pc |-> "mkdir_p", context |-> context,
                               obj |-> obj, filepath |-> filepath.value]
                /\ UNCHANGED last
           ELSE /\ last' = [op |-> "set_asset", context |-> context,
                            obj |-> obj, ret |-> filepath]
                /\ UNCHANGED pending
        /\ UNCHANGED <<asset_store, values, fs>>

\* mkdir_p(os.path.dirname(filepath))
set_asset_mkdir_p ==
    LET made == mkdir_p(fs, os_path_dirname(pending.filepath))
    IN  /\ pending.pc = "mkdir_p"
        /\ IF made.raised # ""
           THEN Completes(Raised(made.raised)) /\ UNCHANGED fs
           ELSE /\ fs' = made.fs
                /\ pending' = [pending EXCEPT !.pc = "open"]
                /\ UNCHANGED last
        /\ UNCHANGED <<asset_store, values>>

\* with open(filepath, "wb") as write_obj: the file is created, or emptied
\* when it exists
set_asset_open ==
    LET c == Resolve(pending.filepath)
    IN  /\ pending.pc = "open"
        /\ IF IsDir(fs, c)
           THEN Completes(Raised("IsADirectoryError")) /\ UNCHANGED fs
           ELSE /\ fs' = WithFile(fs, c, <<>>)
                /\ pending' = [pending EXCEPT !.pc = "dump"]
                /\ UNCHANGED last
        /\ UNCHANGED <<asset_store, values>>

\* pickle.dump(obj, write_obj, PICKLE_PROTOCOL) and the close of the file.
\* The bytes go to the file that was opened: when the path was unlinked in
\* the meantime they go to no path.
set_asset_dump ==
    LET c == Resolve(pending.filepath)
    IN  /\ pending.pc = "dump"
        /\ IF ~pending.obj.picklable
           THEN Completes(Raised("PicklingError")) /\ UNCHANGED fs
           ELSE /\ fs' = IF IsFile(fs, c)
                         THEN WithFile(fs, c, pickle_dumps(pending.obj))
                         ELSE fs
                /\ Completes(Returned(NoneValue))
        /\ UNCHANGED <<asset_store, values>>

\* another party deletes the file stored under the context; seen tells
\* that the call before was a has_asset under this context that returned
\* True
Remove(context) ==
    LET filepath == VersionedPickledObjectFilesystemAssetStore_get_path(context)
    IN  /\ IsReturned(filepath)
        /\ IsFile(fs, Resolve(filepath.value))
        /\ fs' = [fs EXCEPT !.files =
                     [q \in DOMAIN fs.files \ {Resolve(filepath.value)} |->
                         fs.files[q]]]
        /\ last' = [op |-> "remove", context |-> context,
                    seen |-> /\ last.op = "has_asset"
                             /\ last.context = context
                             /\ last.ret = Returned([bool |-> TRUE])]
        /\ UNCHANGED <<asset_store, values, pending>>

\* the other caller's get_asset(context); race tells that the call comes
\* right after the file was deleted behind a has_asset that returned True,
\* with no set_asset in progress
GetAssetConc(context) ==
    /\ last' = [op |-> "get_asset", context |-> context,
                ret |-> get_asset(asset_store, values, fs, context),
                race |-> /\ last.op = "remove"
                         /\ last.seen
                         /\ last.context = context
                         /\ pending = Idle]
    /\ UNCHANGED <<asset_store, values, fs, pending>>

NextConc ==
    \/ \E c \in ConcContexts, obj \in Objects : set_asset_get_path(c, obj)
    \/ set_asset_mkdir_p
    \/ set_asset_open
    \/ set_asset_dump
    \/ \E c \in ConcContexts : GetAssetConc(c)
    \/ \E c \in ConcContexts : HasAsset(c)
    \/ \E c \in ConcContexts : Remove(c)

SpecConc == InitConc /\ [][NextConc]_vars

----------------------------------------------------------------------------
(* Vocabulary of the properties *)

\* what a get_asset under context c gives in the current and in the next state
Read(c) == get_asset(asset_store, values, fs, c)

ReadNext(c) == get_asset(asset_store, values', fs', c)

\* what a has_asset under context c gives in the current and in the next state
Exists(c) == VersionedPickledObjectFilesystemAssetStore_has_asset(fs, c)

ExistsNext(c) == VersionedPickledObjectFilesystemAssetStore_has_asset(fs', c)

\* the outcome is the error of a read whose target is absent
NotFound(ret) ==
    ret.raised \in {"KeyError", "FileNotFoundError", "NotADirectoryError"}

True == Returned([bool |-> TRUE])

False == Returned([bool |-> FALSE])

\* the key the store's addressing policy derives from a context: the tuple
\* of the in-memory store, the node the path of a filesystem store names
KeyOfIn(cls, c) ==
    LET path == CASE cls = RunScoped ->
                       PickledObjectFilesystemAssetStore_get_path(c)
                  [] cls = CustomPath ->
                       IF dict_get(c.asset_metadata, "path") = None
                       THEN Raised("CheckError")
                       ELSE CustomPathPickledObjectFilesystemAssetStore_get_path(
                                dict_get(c.asset_metadata, "path"))
                  [] cls = Versioned ->
                       VersionedPickledObjectFilesystemAssetStore_get_path(c)
    IN  IF cls = InMemory
        THEN Returned(get_run_scoped_output_identifier(c))
        ELSE IF IsReturned(path) THEN Returned(Resolve(path.value)) ELSE path

\* KeyOfIn for every context of every class
KeysOf ==
    [cls \in StoreClasses |-> [c \in Contexts(cls) |-> KeyOfIn(cls, c)]]

KeyOf(c) ==
    IF c \in DOMAIN KeysOf[asset_store]
    THEN KeysOf[asset_store][c]
    ELSE KeyOfIn(asset_store, c)

\* the step is a set_asset call
Writes == last'.op = "set_asset"

\* the step is a set_asset call that returned
WriteReturns == Writes /\ IsReturned(last'.ret)

\* the number of stored keys
StoredKeys == Cardinality(DOMAIN values) + Cardinality(DOMAIN fs.files)

StoredKeysNext == Cardinality(DOMAIN values') + Cardinality(DOMAIN fs'.files)

\* (stepKey, outputName, version) and (sourceRunId, stepKey, outputName)
Triple(c) == <<c.step_key, c.output_name, c.version>>

Identity(c) == <<c.source_run_id, c.step_key, c.output_name>>

----------------------------------------------------------------------------
(* C1: round trip.  In every store class, right after a set_asset call     *)
(* returns, get_asset under an equal context returns the object written;   *)
(* and a value get_asset returns under a context stays the same through    *)
(* every call that is not a set_asset to the same key: a call that is not  *)
(* a set_asset leaves the whole store as it is, and a set_asset that       *)
(* changes the store leaves the values under the other keys.               *)
C1_RoundTrip ==
    [][ /\ WriteReturns => ReadNext(last'.context) = Returned(last'.obj)
        /\ ~Writes => (values' = values /\ fs' = fs)
        /\ (Writes /\ (values' # values \/ fs' # fs))
           => LET key == KeyOf(last'.context)
              IN  \A c \in Contexts(asset_store) :
                      (IsReturned(Read(c)) /\ key # KeyOf(c))
                      => ReadNext(c) = Read(c) ]_vars

\* a filesystem read that returned an object while two keys were stored
C1_Witness ==
    /\ asset_store \in FilesystemClasses
    /\ last.op = "get_asset"
    /\ IsReturned(last.ret)
    /\ last.ret.value.n = 2
    /\ Cardinality(DOMAIN fs.files) >= 2

(* C2: key isolation of the run-scoped stores.  A set_asset that returns   *)
(* under one context leaves what get_asset gives under every context with  *)
(* another (sourceRunId, stepKey, outputName) as it was.                   *)
C2_KeyIsolation ==
    [][ (asset_store \in {InMemory, RunScoped} /\ WriteReturns)
        => \A c \in Contexts(asset_store) :
               Identity(c) # Identity(last'.context) => ReadNext(c) = Read(c) ]_vars

(* C3: overwrite.  A set_asset that follows a returned set_asset to the    *)
(* identical context, with an object the serializer can encode, returns,   *)
(* leaves the number of stored keys as it was, and get_asset under the     *)
(* context then returns the second object.                                 *)
C3_Overwrite ==
    [][ ( /\ last.op = "set_asset"
          /\ IsReturned(last.ret)
          /\ Writes
          /\ last'.context = last.context
          /\ (asset_store \in FilesystemClasses => last'.obj.picklable) )
        => /\ IsReturned(last'.ret)
           /\ StoredKeysNext = StoredKeys
           /\ ReadNext(last'.context) = Returned(last'.obj) ]_vars

\* a set_asset that returned where get_asset gave another object before
C3_Witness ==
    /\ last.op = "set_asset"
    /\ IsReturned(last.ret)
    /\ IsReturned(last.before)
    /\ last.before.value.n = 1
    /\ last.obj.n = 2
    /\ Read(last.context) = Returned(last.obj)

(* C4: cache hit.  In the versioned store, right after a set_asset call    *)
(* returns, has_asset is true under every context with the same            *)
(* (stepKey, outputName, version); and where has_asset is true it is true  *)
(* after every further call (has_asset reads the filesystem only, so only  *)
(* a call that changes the filesystem is looked at).                       *)
C4_CacheHit ==
    [][ asset_store = Versioned
        => /\ WriteReturns
              => \A c \in Contexts(asset_store) :
                     Triple(c) = Triple(last'.context) => ExistsNext(c) = True
           /\ fs' # fs
              => \A c \in Contexts(asset_store) :
                     Exists(c) = True => ExistsNext(c) = True ]_vars

\* has_asset returned true while other artifacts were stored
C4_Witness ==
    /\ asset_store = Versioned
    /\ last.op = "has_asset"
    /\ last.ret = True
    /\ Cardinality(DOMAIN fs.files) >= 2

(* C5: cache miss.  In the versioned store, while no set_asset has been    *)
(* called for the (stepKey, outputName, version) of a context, has_asset   *)
(* under it is false and get_asset fails because nothing is there: a miss  *)
(* lasts through every call that is not a set_asset for that triple.       *)
C5_CacheMiss ==
    [][ asset_store = Versioned
        => \A c \in Contexts(asset_store) :
               ( /\ Exists(c) = False
                 /\ NotFound(Read(c))
                 /\ ~(Writes /\ Triple(last'.context) = Triple(c)) )
               => /\ ExistsNext(c) = False
                  /\ NotFound(ReadNext(c)) ]_vars

(* C6: has_asset and get_asset agree.  In the versioned store, where       *)
(* has_asset is true under a context, get_asset under it returns a value.  *)
C6_ExistsReadAgree ==
    asset_store = Versioned
    => \A c \in Contexts(asset_store) : Exists(c) = True => IsReturned(Read(c))

(* C7: missing metadata.  A call on the explicit-path store whose context  *)
(* has no "path" entry, and a call on the versioned store whose context    *)
(* has no version, fails with the check error and leaves the store as it   *)
(* was.                                                                    *)
C7_MissingMetadata ==
    [][ ( /\ last'.op \in {"set_asset", "get_asset", "has_asset"}
          /\ \/ /\ asset_store = CustomPath
                /\ dict_get(last'.context.asset_metadata, "path") = None
             \/ /\ asset_store = Versioned
                /\ last'.context.version = None )
        => /\ last'.ret = Raised("CheckError")
           /\ fs' = fs
           /\ values' = values ]_vars

\* a set_asset without "path" failed on a store that holds an artifact
C7_Witness ==
    /\ asset_store = CustomPath
    /\ last.op = "set_asset"
    /\ dict_get(last.context.asset_metadata, "path") = None
    /\ last.ret = Raised("CheckError")
    /\ DOMAIN fs.files # {}

(* C8: the versioned store ignores the run id.  After a set_asset returns, *)
(* has_asset is true and get_asset returns the object under every context  *)
(* with the same (stepKey, outputName, version), whatever its run id; and  *)
(* under a context with another version get_asset returns no value it did  *)
(* not return before the call.                                             *)
C8_VersionScoped ==
    [][ (asset_store = Versioned /\ WriteReturns)
        => \A c \in Contexts(asset_store) :
               /\ Triple(c) = Triple(last'.context)
                  => /\ ExistsNext(c) = True
                     /\ ReadNext(c) = Returned(last'.obj)
               /\ (c.version # last'.context.version /\ IsReturned(ReadNext(c)))
                  => ReadNext(c) = Read(c) ]_vars

(* C9: the two construction paths agree.  The context load_input builds    *)
(* from a load context equals, field by field, the context handle_output   *)
(* builds from the load context's upstream output.                         *)
C9_ContextsAgree ==
    \A lc \in LoadContexts(asset_store) :
        (last.op = "get_asset" /\ last.context = from_load_context(lc))
        => last.context = from_output_context(lc.upstream_output)

(* C10: only the explicit-path store emits a materialization.  A returned  *)
(* set_asset of the explicit-path store gives a record whose asset key is  *)
(* (pipelineName, stepKey, outputName) and whose location is absolute and  *)
(* names the node of join(base_dir, path), which holds the pickle; a       *)
(* returned set_asset of the other stores gives None; no get_asset or      *)
(* has_asset gives a record with an asset key.                             *)
C10_Materialization ==
    /\ (last.op = "set_asset" /\ IsReturned(last.ret) /\ asset_store = CustomPath)
       => /\ DOMAIN last.ret.value = {"asset_key", "fspath"}
          /\ last.ret.value.asset_key
                 = <<last.context.pipeline_name, last.context.step_key,
                     last.context.output_name>>
          /\ StartsWithSep(last.ret.value.fspath)
          /\ Resolve(last.ret.value.fspath)
                 = Resolve(JoinOne(base_dir,
                                   dict_get(last.context.asset_metadata, "path")))
          /\ fs.files[Resolve(last.ret.value.fspath)] = pickle_dumps(last.obj)
    /\ (last.op = "set_asset" /\ IsReturned(last.ret) /\ asset_store # CustomPath)
       => last.ret.value = NoneValue
    /\ (last.op \in {"get_asset", "has_asset"} /\ IsReturned(last.ret))
       => "asset_key" \notin DOMAIN last.ret.value

\* a set_asset under the relative path "p" returned its record
C10_Witness ==
    /\ asset_store = CustomPath
    /\ last.op = "set_asset"
    /\ IsReturned(last.ret)
    /\ dict_get(last.context.asset_metadata, "path") = <<"p">>
    /\ last.ret.value.fspath = <<"/", "w", "/", "p">>

----------------------------------------------------------------------------
(* Vocabulary of the properties of concurrent callers *)

\* the step is a statement of the set_asset call in progress
WriteStep == pending' # pending \/ (last' # last /\ last'.op = "set_asset")

\* the context of the set_asset call the step belongs to
WriteContext ==
    IF pending # Idle THEN pending.context
    ELSE IF pending' # Idle THEN pending'.context
    ELSE last'.context

----------------------------------------------------------------------------
(* C11: reads need no coordination with unrelated writes.  On the          *)
(* versioned store with a set_asset running statement by statement next to *)
(* the reader, no statement of a set_asset whose key differs from the key  *)
(* of a context changes what get_asset gives under that context: the value *)
(* of the last completed write to the key, or the not-found error of a key *)
(* never written.                                                          *)
C11_UnrelatedWrites ==
    [][ WriteStep
        => \A c \in ConcContexts :
               KeyOf(c) # KeyOf(WriteContext) => ReadNext(c) = Read(c) ]_vars

----------------------------------------------------------------------------
(* C12: a write is one step for the other callers.  On the versioned store *)
(* with one writer, every statement of a set_asset of a picklable object   *)
(* leaves get_asset under the written context giving what it gave before   *)
(* the statement or the object being written, and leaves has_asset under   *)
(* it True only when get_asset returns a value: the other caller never     *)
(* meets an empty or partly written file.                                  *)
C12_WriteIsOneStep ==
    [][ (WriteStep /\ pending # Idle /\ pending.obj.picklable)
        => LET c == pending.context
           IN  /\ ReadNext(c) \in {Read(c), Returned(pending.obj)}
               /\ ExistsNext(c) = True => IsReturned(ReadNext(c)) ]_vars

----------------------------------------------------------------------------
(* C13: exists-then-read is not atomic.  On the versioned store, when      *)
(* has_asset under a context returned True, another party then deleted the *)
(* file and the caller's get_asset under the context comes next with no    *)
(* set_asset in progress, the get_asset raises the not-found error; it     *)
(* returns no value, changes nothing in the filesystem and leaves the file *)
(* deleted.                                                                *)
C13_DeletedBeforeRead ==
    [][ (last' # last /\ last'.op = "get_asset" /\ last'.race)
        => /\ last'.ret = Raised("FileNotFoundError")
           /\ fs' = fs
           /\ ~IsFile(fs', KeyOf(last'.context).value) ]_vars

\* a get_asset has raised the not-found error right after the deletion of a
\* file has_asset had reported
C13_Witness ==
    /\ last.op = "get_asset"
    /\ last.race
    /\ last.ret = Raised("FileNotFoundError")

----------------------------------------------------------------------------
(* C14: context construction fails fast.  A context is well formed when    *)
(* step key, output name and pipeline name are strings, source run id and  *)
(* version are strings or None, every metadata key is a string and the     *)
(* solid definition is one.  Whenever the engine hands arguments that are  *)
(* not well formed, the construction raises the check error and the store  *)
(* stays as it is; a construction only raises on such arguments; and every *)
(* set_asset, get_asset and has_asset runs on a well formed context.       *)
WellFormed(c) ==
    /\ c.step_key \notin {None, NotAStr}
    /\ c.output_name \notin {None, NotAStr}
    /\ c.pipeline_name \notin {None, NotAStr}
    /\ c.source_run_id # NotAStr
    /\ c.version # NotAStr
    /\ \A kv \in c.asset_metadata : kv[1] # NotAStrKey
    /\ c.solid_def \in SolidDefs

C14_FailFast ==
    [][ /\ last'.op = "AssetStoreContext"
           => /\ ~WellFormed(last'.context)
              /\ last'.ret = Raised("CheckError")
              /\ values' = values /\ fs' = fs
        /\ last'.op \in {"set_asset", "get_asset", "has_asset"}
           => WellFormed(last'.context) ]_vars

\* with something stored, a construction has raised on an int version
C14_Witness ==
    /\ last.op = "AssetStoreContext"
    /\ last.context.version = NotAStr
    /\ last.ret = Raised("CheckError")
    /\ StoredKeys > 0

----------------------------------------------------------------------------
(* C15: classification of read failures.  In a filesystem store, get_asset *)
(* under a context whose path resolves raises the not-found error exactly  *)
(* when neither a file nor a directory is at the path, and raises a decode *)
(* error (EOFError or UnpicklingError of pickle.load) when a directory is  *)
(* at the path or the bytes of the file are no pickle; in the in-memory    *)
(* store get_asset under a key never written raises KeyError.              *)
DecodeError(ret) == ret.raised \in {"EOFError", "UnpicklingError"}

C15_ReadErrors ==
    \A c \in Contexts(asset_store) :
        IF asset_store = InMemory
        THEN KeyOf(c).value \notin DOMAIN values => Read(c) = Raised("KeyError")
        ELSE IsReturned(KeyOf(c))
             => LET node == KeyOf(c).value
                IN  /\ NotFound(Read(c)) <=> (~IsFile(fs, node) /\ ~IsDir(fs, node))
                    /\ IsDir(fs, node) => DecodeError(Read(c))
                    /\ (IsFile(fs, node) /\ ~IsReturned(pickle_load(fs.files[node])))
                       => DecodeError(Read(c))

----------------------------------------------------------------------------
(* C16: has_asset of the versioned store.  Under a context whose path      *)
(* resolves, no call that returns turns has_asset True but a set_asset for *)
(* the (stepKey, outputName, version) of the context; has_asset is True    *)
(* when such a set_asset has returned and stays True from then on; and it  *)
(* is False whenever a directory is at the path, as it is once a set_asset *)
(* stored a file below the path.                                           *)
C16_ExistsIff ==
    [][ asset_store = Versioned
        => \A c \in Contexts(asset_store) :
               IsReturned(KeyOf(c))
               => /\ ( /\ Exists(c) # True /\ ExistsNext(c) = True
                       /\ IsReturned(last'.ret) )
                     => (Writes /\ Triple(last'.context) = Triple(c))
                  /\ (WriteReturns /\ Triple(last'.context) = Triple(c))
                     => ExistsNext(c) = True
                  /\ Exists(c) = True => ExistsNext(c) = True
                  /\ IsDir(fs', KeyOf(c).value) => ExistsNext(c) = False ]_vars

----------------------------------------------------------------------------
(* C17: the in-memory map is state of the process.  In the in-memory       *)
(* store, through every step of the engine, a new initialisation of the    *)
(* resource included, a key of the dict stays a key of the dict of the     *)
(* instance the engine holds, and get_asset under a context that returned  *)
(* a value returns that value still, unless the step is a set_asset under  *)
(* the same key.                                                           *)
C17_SharedMap ==
    [][ asset_store = InMemory
        => /\ DOMAIN values \subseteq DOMAIN values'
           /\ \A c \in Contexts(asset_store) :
                  (IsReturned(Read(c))
                      /\ ~(Writes /\ KeyOf(last'.context) = KeyOf(c)))
                  => ReadNext(c) = Read(c) ]_vars

----------------------------------------------------------------------------
(* C18: end to end through the adapters.  In every store class, when       *)
(* handle_output returns for an output context, load_input under every     *)
(* load context with that upstream output returns the object handed in,    *)
(* and goes on returning it through every adapter call but a handle_output *)
(* whose context resolves to the same key; handle_output gives the engine  *)
(* what set_asset gives.                                                   *)
C18_AdaptersRoundTrip ==
    [][ /\ WriteReturns
           => \A lc \in LoadContexts(asset_store) :
                  from_output_context(lc.upstream_output) = last'.context
                  => ReadNext(from_load_context(lc)) = Returned(last'.obj)
        /\ (values' # values \/ fs' # fs)
           => LET key == KeyOf(last'.context)
              IN  \A lc \in LoadContexts(asset_store) :
                      LET before == Read(from_load_context(lc))
                      IN  \/ ReadNext(from_load_context(lc)) = before
                          \/ ~IsReturned(before)
                          \/ (Writes /\ key = KeyOf(from_load_context(lc)))
        /\ Writes
           => last'.ret = set_asset(asset_store, values, fs,
                                   last'.context, last'.obj).ret ]_vars

\* load_input has returned a value to a consuming solid while another
\* output was stored as well
C18_Witness ==
    /\ last.op = "get_asset"
    /\ last.context.solid_def # ProducerSolid
    /\ IsReturned(last.ret)
    /\ StoredKeys >= 2

\* the two contexts are of the same step output: they differ in the solid
\* that uses the store at most
SameOutput(c, d) == [c EXCEPT !.solid_def = ""] = [d EXCEPT !.solid_def = ""]

\* C18 as stated: the object handed in is returned after any number of
\* adapter calls for other outputs, whatever key they resolve to
C18_EndToEnd ==
    [][ (IsReturned(last'.ret) /\ (values' # values \/ fs' # fs))
        => \A lc \in LoadContexts(asset_store) :
               (IsReturned(Read(from_load_context(lc)))
                   /\ ~(Writes /\ SameOutput(last'.context, from_load_context(lc))))
               => ReadNext(from_load_context(lc)) = Read(from_load_context(lc)) ]_vars

----------------------------------------------------------------------------
(* C19: a failed write changes nothing.  In every store class, a set_asset *)
(* that raises PicklingError, its path resolved, leaves every value        *)
(* get_asset returned before the call returned still, and in the versioned *)
(* store turns has_asset True under no context.                            *)
C19_FailedWrite ==
    [][ (Writes /\ last'.ret = Raised("PicklingError"))
        => \A c \in Contexts(asset_store) :
               /\ IsReturned(Read(c)) => ReadNext(c) = Read(c)
               /\ (asset_store = Versioned /\ Exists(c) # True)
                  => ExistsNext(c) # True ]_vars

----------------------------------------------------------------------------
(* C20: a None source_run_id.  AssetStoreContext accepts it.  In the       *)
(* in-memory store a set_asset under such a context returns, stores the    *)
(* object under the tuple (None, step_key, output_name), and get_asset     *)
(* under the context returns it.  In the run-scoped filesystem store every *)
(* set_asset and get_asset under such a context raises the TypeError of    *)
(* os.path.join, and the filesystem stays as it was.                       *)
C20_NullRunId ==
    [][ (last'.op \in {"set_asset", "get_asset"}
            /\ last'.context.source_run_id = None)
        => /\ IsReturned(AssetStoreContext_new(last'.context))
           /\ (asset_store = InMemory /\ Writes)
              => LET keys == <<None, last'.context.step_key,
                               last'.context.output_name>>
                 IN  /\ IsReturned(last'.ret)
                     /\ keys \in DOMAIN values'
                     /\ values'[keys] = last'.obj
                     /\ ReadNext(last'.context) = Returned(last'.obj)
           /\ asset_store = RunScoped
              => /\ last'.ret = Raised("TypeError")
                 /\ fs' = fs ]_vars

\* with files stored, a set_asset of the run-scoped filesystem store has
\* raised TypeError under a context without run id
C20_Witness ==
    /\ asset_store = RunScoped
    /\ last.op = "set_asset"
    /\ last.context.source_run_id = None
    /\ last.ret = Raised("TypeError")
    /\ StoredKeys > 0

----------------------------------------------------------------------------
====
